---- MODULE Spec2Model ----
(***************************************************************************)
(* A model of PyQuantEDGAR's extraction core: the alias registry           *)
(* (xbrl_parser._load_aliases / save_new_aliases), the value normaliser    *)
(* (_coerce_numeric), the context index (_parse_contexts), the fact        *)
(* extractor and period selector (parse_filing) and the orchestration      *)
(* loop of main.py.                                                        *)
(*                                                                         *)
(* Text is modelled as a sequence of one-character strings; a tag name is  *)
(* a sequence of tokens (a prefix, a separator, a local name), so that two *)
(* names are equal as strings exactly when the sequences are equal.        *)
(***************************************************************************)
EXTENDS Integers, Sequences, FiniteSets, TLC

VARIABLES
    file,        \* the persisted alias store, metric_aliases.json
    cache,       \* _ALIAS_CACHE of each process
    wr,          \* per process: "idle", or "writing" inside save_new_aliases
    ret,         \* per process: what its last _load_aliases() call returned
    op,          \* per process: its last completed registry operation
    merged,      \* the merges completed so far, each with the process it is by
    quiet,       \* those completed while no other process held a cached map
    calls,       \* registry calls started so far by the concurrent processes
    coerce_arg,  \* the argument of _coerce_numeric
    coerced,     \* its result
    doc,         \* the document the filing's URL serves
    taxonomy,    \* the label and presentation files of the filing
    the_filing,  \* the filing handed to parse_filing
    result,      \* the outcome of the last parse_filing call
    pc,          \* main.py: the position in the body of the filing loop
    filings,     \* main.py: the filings still to process
    new_aliases, \* main.py: what discover_aliases returned
    extracted_facts, \* main.py: the facts of the filing at hand
    inserted,    \* the lists handed to insert_financial_facts that it stored
    trail        \* the calls made so far for the filing at hand

regVars    == <<file, cache, wr, ret, op, merged, quiet, calls>>
coerceVars == <<coerce_arg, coerced>>
parseVars  == <<doc, taxonomy, the_filing, result>>
mainVars   == <<pc, filings, new_aliases, extracted_facts, inserted, trail>>
vars       == <<regVars, coerceVars, parseVars, mainVars>>

(***************************************************************************)
(* Bounds of the model.                                                    *)
(***************************************************************************)
MaxTextLen == 3
NumProcs   == 2
MaxCalls   == 4

(***************************************************************************)
(* Text helpers: str.strip(), str.replace(c, "").                          *)
(***************************************************************************)
RECURSIVE LStrip(_)
LStrip(s) ==
    IF Len(s) > 0 /\ s[1] = " " THEN LStrip(Tail(s)) ELSE s

RECURSIVE RStrip(_)
RStrip(s) ==
    IF Len(s) > 0 /\ s[Len(s)] = " " THEN RStrip(SubSeq(s, 1, Len(s) - 1)) ELSE s

Strip(s) == RStrip(LStrip(s))

Remove(s, c) == SelectSeq(s, LAMBDA ch : ch # c)

Upper(ch) ==
    CASE ch = "i" -> "I"
      [] ch = "n" -> "N"
      [] ch = "f" -> "F"
      [] ch = "a" -> "A"
      [] ch = "t" -> "T"
      [] ch = "y" -> "Y"
      [] OTHER -> ch

UpperText(s) == [i \in 1..Len(s) |-> Upper(s[i])]

(***************************************************************************)
(* Python floats.  A float is  (-1)^neg * m * 10^x  (k = "fin", with m not *)
(* divisible by ten unless it is zero), an infinity or a NaN.  Decimal     *)
(* texts of a few digits denote their nearest double; the model keeps the  *)
(* decimal the double stands for.                                          *)
(***************************************************************************)
RECURSIVE Normal(_, _, _)
Normal(neg, m, x) ==
    IF m = 0 THEN [k |-> "fin", neg |-> neg, m |-> 0, x |-> 0]
    ELSE IF m % 10 = 0 THEN Normal(neg, m \div 10, x + 1)
    ELSE [k |-> "fin", neg |-> neg, m |-> m, x |-> x]

Inf(neg) == [k |-> "inf", neg |-> neg, m |-> 0, x |-> 0]
NaN      == [k |-> "nan", neg |-> FALSE, m |-> 0, x |-> 0]

Negate(n)    == IF n.k = "nan" THEN n ELSE [n EXCEPT !.neg = ~n.neg]
IsFinite(n)  == n.k = "fin"
is_integer(n) == n.k = "fin" /\ n.x >= 0

Digits == {"0", "1", "2", "3", "4", "5", "6", "7", "8", "9"}

DigitVal(ch) ==
    CASE ch = "0" -> 0 [] ch = "1" -> 1 [] ch = "2" -> 2 [] ch = "3" -> 3
      [] ch = "4" -> 4 [] ch = "5" -> 5 [] ch = "6" -> 6 [] ch = "7" -> 7
      [] ch = "8" -> 8 [] ch = "9" -> 9

RECURSIVE DigitsToNat(_, _)
DigitsToNat(s, acc) ==
    IF Len(s) = 0 THEN acc ELSE DigitsToNat(Tail(s), 10 * acc + DigitVal(s[1]))

AllDigits(s) == \A i \in 1..Len(s) : s[i] \in Digits

\* position of the first "." of s, or 0
RECURSIVE PointAt(_, _)
PointAt(s, i) ==
    IF i > Len(s) THEN 0 ELSE IF s[i] = "." THEN i ELSE PointAt(s, i + 1)

NoFloat == [ok |-> FALSE, n |-> NaN]
AFloat(n) == [ok |-> TRUE, n |-> n]

\* float(text): surrounding blanks ignored, an optional sign, then inf,
\* infinity or nan in any case, or digits with at most one point and at
\* least one digit.  ok = FALSE stands for ValueError.
ParseMagnitude(body) ==
    LET up == UpperText(body)
        p  == PointAt(body, 1)
        ip == IF p = 0 THEN body ELSE SubSeq(body, 1, p - 1)
        fp == IF p = 0 THEN <<>> ELSE SubSeq(body, p + 1, Len(body))
    IN  IF up = <<"I", "N", "F">> \/ up = <<"I", "N", "F", "I", "N", "I", "T", "Y">>
            THEN AFloat(Inf(FALSE))
        ELSE IF up = <<"N", "A", "N">> THEN AFloat(NaN)
        ELSE IF AllDigits(ip) /\ AllDigits(fp) /\ Len(ip) + Len(fp) > 0
            THEN AFloat(Normal(FALSE, DigitsToNat(ip \o fp, 0), 0 - Len(fp)))
        ELSE NoFloat

ParseFloat(text) ==
    LET t == Strip(text)
    IN  IF Len(t) = 0 THEN NoFloat
        ELSE IF t[1] = "-"
            THEN LET r == ParseMagnitude(Tail(t))
                 IN  IF r.ok THEN AFloat(Negate(r.n)) ELSE NoFloat
        ELSE IF t[1] = "+" THEN ParseMagnitude(Tail(t))
        ELSE ParseMagnitude(t)

(***************************************************************************)
(* _coerce_numeric: ty is "None", "int" or "float".                        *)
(***************************************************************************)
NoneValue   == [ty |-> "None", n |-> NaN]
IntValue(n) == [ty |-> "int", n |-> IF n.m = 0 THEN [n EXCEPT !.neg = FALSE] ELSE n]
FloatValue(n) == [ty |-> "float", n |-> n]

Wrapped(cleaned) ==
    Len(cleaned) > 0 /\ cleaned[1] = "(" /\ cleaned[Len(cleaned)] = ")"

\* a bug that forgets the parenthesised negation
CoerceKeepsSign(value_text) ==
    LET stripped == Strip(value_text)
        cleaned  == Remove(Remove(stripped, ","), "$")
        negative == Wrapped(cleaned)
        inner    == IF negative THEN SubSeq(cleaned, 2, Len(cleaned) - 1) ELSE cleaned
        parsed   == ParseFloat(inner)
    IN  IF Len(stripped) = 0 THEN NoneValue
        ELSE IF ~parsed.ok THEN NoneValue
        ELSE IF is_integer(parsed.n) THEN IntValue(parsed.n)
        ELSE FloatValue(parsed.n)

_coerce_numeric(value_text) ==
    LET stripped == Strip(value_text)
        cleaned  == Remove(Remove(stripped, ","), "$")
        negative == Wrapped(cleaned)
        inner    == IF negative THEN SubSeq(cleaned, 2, Len(cleaned) - 1) ELSE cleaned
        parsed   == ParseFloat(inner)
        number   == IF negative THEN Negate(parsed.n) ELSE parsed.n
    IN  IF Len(stripped) = 0 THEN NoneValue
        ELSE IF ~parsed.ok THEN NoneValue
        ELSE IF is_integer(number) THEN IntValue(number)
        ELSE FloatValue(number)

(***************************************************************************)
(* The alias registry.  An alias map is a Python dict in insertion order:  *)
(* a sequence of entries [metric, tags], tags a list of tag names.  A tag  *)
(* name is a sequence of tokens.                                           *)
(***************************************************************************)
Procs == 1..NumProcs

us_gaap_Revenues        == <<"us-gaap", "_", "Revenues">>
us_gaap_Assets          == <<"us-gaap", "_", "Assets">>
us_gaap_SalesRevenueNet == <<"us-gaap", "_", "SalesRevenueNet">>
colon_Revenues          == <<"us-gaap", ":", "Revenues">>
bare_Revenues           == <<"Revenues">>
bare_Assets             == <<"Assets">>
EmptyTag                == <<>>

Entry(m, tags) == [metric |-> m, tags |-> tags]

Keys(map) == {map[i].metric : i \in 1..Len(map)}

IndexOf(map, m) == CHOOSE i \in 1..Len(map) : map[i].metric = m

TagsOf(map, m) == IF m \in Keys(map) THEN map[IndexOf(map, m)].tags ELSE <<>>

Contains(seq, x) == \E i \in 1..Len(seq) : seq[i] = x

\* aliases.setdefault(standard_name, [])
SetDefault(map, m) == IF m \in Keys(map) THEN map ELSE Append(map, Entry(m, <<>>))

\* a bug that drops the new tag
MergeOneNever(map, m, t) ==
    IF m = "" \/ t = EmptyTag THEN map ELSE SetDefault(map, m)

\* one round of the loop of save_new_aliases
MergeOne(map, m, t) ==
    IF m = "" \/ t = EmptyTag THEN map
    ELSE LET withKey == SetDefault(map, m)
             i == IndexOf(withKey, m)
         IN  IF Contains(withKey[i].tags, t) THEN withKey
             ELSE [withKey EXCEPT ![i].tags = Append(@, t)]

\* new_aliases_map is a dict of metric -> tag: a sequence of pairs
RECURSIVE MergeAll(_, _)
MergeAll(map, new) ==
    IF Len(new) = 0 THEN map
    ELSE MergeAll(MergeOne(map, new[1].metric, new[1].tag), Tail(new))

Pair(m, t) == [metric |-> m, tag |-> t]

\* the file: a JSON object, or absent, or a truncated write
Stored(map)  == [k |-> "map", v |-> map]
MissingFile  == [k |-> "missing", v |-> <<>>]
CorruptFile  == [k |-> "corrupt", v |-> <<>>]
NoCache      == [k |-> "None", v |-> <<>>]
Cached(map)  == [k |-> "map", v |-> map]
Returned(map) == [k |-> "map", v |-> map]
Raised       == [k |-> "raised", v |-> <<>>]
NotCalled    == [k |-> "none", v |-> <<>>]

\* _load_aliases can return: the cache is set, or the file parses
CanLoad(p) == cache[p].k = "map" \/ file.k = "map"

\* a bug that starts from an empty map
LoadedNothing(p) == <<>>

\* what _load_aliases returns (and leaves in the cache)
Loaded(p) == IF cache[p].k = "map" THEN cache[p].v ELSE file.v

\* a bug that keeps the cache after the write
AfterWriteKept(map) == Cached(map)

\* _ALIAS_CACHE = None
AfterWrite(map) == NoCache

NoOp == [k |-> "none", new |-> <<>>, before |-> MissingFile]

NonEmptyPairs(new) ==
    {i \in 1..Len(new) : new[i].metric # "" /\ new[i].tag # EmptyTag}

\* the merges a completed save_new_aliases(new) of process p stands for;
\* serial: p read the file at the start of the call and the file is still
\* as p read it when p writes
MergesOf(p, new) ==
    {[by |-> p, metric |-> new[i].metric, tag |-> new[i].tag,
      serial |-> op[p].before = file] : i \in NonEmptyPairs(new)}

\* the merges of a save_new_aliases(new) that process p completes while no
\* other process holds a cached map
QuietOf(p, new) ==
    IF \A q \in Procs \ {p} : cache[q].k = "None" THEN {[metric |-> new[i].metric, tag |-> new[i].tag] : i \in NonEmptyPairs(new)}
    ELSE {}

(***************************************************************************)
(* _load_aliases, as one step of process p.                                *)
(***************************************************************************)
Load(p) ==
    /\ wr[p] = "idle"
    /\ CanLoad(p)
    /\ cache' = [cache EXCEPT ![p] = Cached(Loaded(p))]
    /\ ret' = [ret EXCEPT ![p] = Returned(Loaded(p))]
    /\ op' = [op EXCEPT ![p] = [k |-> "load",
                                new |-> IF op[p].k = "save" THEN op[p].new ELSE <<>>,
                                before |-> MissingFile]]
    /\ UNCHANGED <<file, wr, merged, quiet>>

\* open() or json.load raises: FileNotFoundError, JSONDecodeError
LoadRaises(p) ==
    /\ wr[p] = "idle"
    /\ ~CanLoad(p)
    /\ ret' = [ret EXCEPT ![p] = Raised]
    /\ op' = [op EXCEPT ![p] = [k |-> "loadraised", new |-> <<>>, before |-> MissingFile]]
    /\ UNCHANGED <<file, cache, wr, merged, quiet>>

(***************************************************************************)
(* save_new_aliases(new), whole: the call of a single-threaded process.    *)
(***************************************************************************)
Save(p, new) ==
    /\ wr[p] = "idle"
    /\ CanLoad(p)
    /\ LET aliases == MergeAll(Loaded(p), new)
       IN  /\ file' = Stored(aliases)
           /\ cache' = [cache EXCEPT ![p] = AfterWrite(aliases)]
    /\ op' = [op EXCEPT ![p] = [k |-> "save", new |-> new, before |-> file]]
    /\ UNCHANGED <<wr, ret, merged, quiet>>

\* the write raises: open() fails and the file is as before, or the dump
\* fails after open() truncated it.  The merged dict stays in the cache.
SaveWriteRaises(p, new) ==
    /\ wr[p] = "idle"
    /\ CanLoad(p)
    /\ cache' = [cache EXCEPT ![p] = Cached(MergeAll(Loaded(p), new))]
    /\ file' \in {file, CorruptFile}
    /\ op' = [op EXCEPT ![p] = [k |-> "saveraised", new |-> new, before |-> MissingFile]]
    /\ UNCHANGED <<wr, ret, merged, quiet>>

\* the _load_aliases() call of save_new_aliases raises
SaveLoadRaises(p, new) ==
    /\ wr[p] = "idle"
    /\ ~CanLoad(p)
    /\ op' = [op EXCEPT ![p] = [k |-> "saveraised", new |-> new, before |-> MissingFile]]
    /\ UNCHANGED <<file, cache, wr, ret, merged, quiet>>

(***************************************************************************)
(* save_new_aliases(new) among other processes: the load and the in-place  *)
(* merge (lines 33-41), then the write and the reset (lines 43-46).        *)
(***************************************************************************)
SaveMerge(p, new) ==
    /\ wr[p] = "idle"
    /\ CanLoad(p)
    /\ cache' = [cache EXCEPT ![p] = Cached(MergeAll(Loaded(p), new))]
    /\ wr' = [wr EXCEPT ![p] = "writing"]
    /\ op' = [op EXCEPT ![p] = [k |-> "merging", new |-> new,
                                before |-> IF cache[p].k = "None" THEN file
                                           ELSE MissingFile]]
    /\ UNCHANGED <<file, ret, merged, quiet>>

SaveWrite(p) ==
    /\ wr[p] = "writing"
    /\ file' = Stored(cache[p].v)
    /\ cache' = [cache EXCEPT ![p] = AfterWrite(cache[p].v)]
    /\ wr' = [wr EXCEPT ![p] = "idle"]
    /\ op' = [op EXCEPT ![p] = NoOp]
    /\ merged' = merged \cup MergesOf(p, op[p].new)
    /\ quiet' = quiet \cup QuietOf(p, op[p].new)
    /\ UNCHANGED ret

SaveWriteFails(p) ==
    /\ wr[p] = "writing"
    /\ file' \in {file, CorruptFile}
    /\ wr' = [wr EXCEPT ![p] = "idle"]
    /\ op' = [op EXCEPT ![p] = NoOp]
    /\ UNCHANGED <<cache, ret, merged, quiet>>

(***************************************************************************)
(* Inputs of the registry.                                                 *)
(***************************************************************************)
\* a call of one of the concurrent processes starts
Call == calls < MaxCalls /\ calls' = calls + 1

InitFiles ==
    { Stored(<<Entry("Revenues", <<us_gaap_Revenues>>)>>),
      Stored(<<Entry("Assets", <<us_gaap_Assets>>),
               Entry("Revenues", <<us_gaap_Revenues>>)>>),
      MissingFile }

NewAliasMaps ==
    { <<Pair("Revenues", us_gaap_SalesRevenueNet)>>,
      <<Pair("Revenues", us_gaap_Revenues)>>,
      <<Pair("Liabilities", us_gaap_SalesRevenueNet)>>,
      <<Pair("", us_gaap_SalesRevenueNet)>>,
      <<Pair("Revenues", EmptyTag)>>,
      <<Pair("Revenues", us_gaap_SalesRevenueNet),
        Pair("Assets", us_gaap_Assets)>> }

\* what the concurrent writers merge
WriterMaps ==
    { <<Pair("Revenues", us_gaap_SalesRevenueNet)>>,
      <<Pair("Revenues", colon_Revenues)>> }

RegInit ==
    /\ file \in InitFiles
    /\ cache = [p \in Procs |-> NoCache]
    /\ wr = [p \in Procs |-> "idle"]
    /\ ret = [p \in Procs |-> NotCalled]
    /\ op = [p \in Procs |-> NoOp]
    /\ merged = {}
    /\ quiet = {}
    /\ calls = 0

RegIdle ==
    /\ file = MissingFile
    /\ cache = [p \in Procs |-> NoCache]
    /\ wr = [p \in Procs |-> "idle"]
    /\ ret = [p \in Procs |-> NotCalled]
    /\ op = [p \in Procs |-> NoOp]
    /\ merged = {}
    /\ quiet = {}
    /\ calls = 0

CoerceIdle ==
    /\ coerce_arg = <<>>
    /\ coerced = [done |-> FALSE, r |-> NoneValue]

\* the document of a URL that cannot be fetched: requests.get fails or the
\* response is an HTTP error
Unavailable == [dialect |-> "none", contexts |-> <<>>, elements |-> <<>>]

\* the taxonomy of an index page that cannot be fetched
Unreachable == [k |-> "unreachable", label_map |-> <<>>, locs |-> <<>>]

NoFiling == [cik |-> "", filingDate |-> "", reportDate |-> <<>>, formType |-> ""]

\* no parse_filing call yet
NotParsed ==
    [k |-> "idle", contexts |-> <<>>, aliases |-> <<>>, extracted |-> <<>>,
     selected |-> <<>>, facts |-> <<>>]

\* no filing is being processed
MainIdle ==
    /\ doc = Unavailable
    /\ taxonomy = Unreachable
    /\ the_filing = NoFiling
    /\ result = NotParsed
    /\ pc = "off"
    /\ filings = <<>>
    /\ new_aliases = <<>>
    /\ extracted_facts = <<>>
    /\ inserted = <<>>
    /\ trail = <<>>

(***************************************************************************)
(* SpecSingle: one process (the program as written, single-threaded)       *)
(* loading and merging in any order.                                       *)
(***************************************************************************)
Main == 1

InitSingle == RegInit /\ CoerceIdle /\ MainIdle

NextSingle ==
    \/ Load(Main) /\ UNCHANGED <<calls, coerceVars, parseVars, mainVars>>
    \/ LoadRaises(Main) /\ UNCHANGED <<calls, coerceVars, parseVars, mainVars>>
    \/ \E new \in NewAliasMaps : Save(Main, new) /\ UNCHANGED <<calls, coerceVars, parseVars, mainVars>>
    \/ \E new \in NewAliasMaps : SaveWriteRaises(Main, new) /\ UNCHANGED <<calls, coerceVars, parseVars, mainVars>>
    \/ \E new \in NewAliasMaps : SaveLoadRaises(Main, new) /\ UNCHANGED <<calls, coerceVars, parseVars, mainVars>>

SpecSingle == InitSingle /\ [][NextSingle]_vars

(***************************************************************************)
(* SpecMulti: NumProcs processes sharing the file, each with its own       *)
(* cache, their steps interleaved.                                         *)
(***************************************************************************)
NextMulti ==
    \/ \E p \in Procs : Load(p) /\ Call /\ UNCHANGED <<coerceVars, parseVars, mainVars>>
    \/ \E p \in Procs : LoadRaises(p) /\ Call /\ UNCHANGED <<coerceVars, parseVars, mainVars>>
    \/ \E p \in Procs, new \in WriterMaps : SaveMerge(p, new) /\ Call /\ UNCHANGED <<coerceVars, parseVars, mainVars>>
    \/ \E p \in Procs : SaveWrite(p) /\ UNCHANGED <<calls, coerceVars, parseVars, mainVars>>
    \/ \E p \in Procs : SaveWriteFails(p) /\ UNCHANGED <<calls, coerceVars, parseVars, mainVars>>
    \/ \E p \in Procs, new \in WriterMaps : SaveLoadRaises(p, new) /\ Call /\ UNCHANGED <<coerceVars, parseVars, mainVars>>

SpecMulti == InitSingle /\ [][NextMulti]_vars

(***************************************************************************)
(* Claims about the alias registry.                                        *)
(***************************************************************************)
PresentIn(map, new) ==
    \A i \in NonEmptyPairs(new) : Contains(TagsOf(map, new[i].metric), new[i].tag)

TagSet(map, m) == {TagsOf(map, m)[i] : i \in 1..Len(TagsOf(map, m))}

SameMapping(a, b) ==
    Keys(a) = Keys(b) /\ \A m \in Keys(a) : TagSet(a, m) = TagSet(b, m)

NoDuplicateTags(map) ==
    \A e \in 1..Len(map) : \A i, j \in 1..Len(map[e].tags) :
        map[e].tags[i] = map[e].tags[j] => i = j

\* C5: within one process, when save_new_aliases({m: t}) has returned
\* (m and t not empty) the cache is None and the file holds t under m; the
\* _load_aliases() call that follows returns the file's map, with t in m's
\* list, whatever loads, merges and failed writes came before.
C5_SaveThenReload ==
    \A p \in Procs :
        /\ op[p].k = "save" =>
              /\ cache[p] = NoCache
              /\ file.k = "map"
              /\ PresentIn(file.v, op[p].new)
        /\ (op[p].k = "load" /\ Len(op[p].new) > 0) =>
              /\ ret[p] = Returned(file.v)
              /\ PresentIn(ret[p].v, op[p].new)

\* a load that follows a merge of a new tag made from a populated cache
C5_Witness ==
    /\ op[Main].k = "load"
    /\ op[Main].new = <<Pair("Revenues", us_gaap_SalesRevenueNet)>>
    /\ Contains(TagsOf(ret[Main].v, "Revenues"), us_gaap_SalesRevenueNet)
    /\ "Assets" \in Keys(ret[Main].v)

C7_MergeIdempotent ==
    /\ \A p \in Procs :
          (op[p].k = "save" /\ op[p].before.k = "map"
              /\ NonEmptyPairs(op[p].new) # {}
              /\ PresentIn(op[p].before.v, op[p].new))
          => (file.k = "map" /\ SameMapping(file.v, op[p].before.v))
    /\ file.k = "map" => NoDuplicateTags(file.v)

(***************************************************************************)
(* SpecCoerce: _coerce_numeric applied to every text of at most MaxTextLen *)
(* characters of Alphabet, and to the texts the documentation names.       *)
(***************************************************************************)
Alphabet == {"0", "1", "5", ".", ",", "$", "(", ")", "-", " ", "N", "A", "/"}

Text_Paren  == <<"(", "1", ",", "2", "3", "4", ".", "5", "0", ")">>
Text_Dollar == <<"$", "5", "0", "0">>
Text_NA     == <<"N", "/", "A">>
Text_inf    == <<"i", "n", "f">>

ValueTexts ==
    UNION {[1..k -> Alphabet] : k \in 0..MaxTextLen} \cup {Text_Paren, Text_Dollar, Text_NA, Text_inf}

InitCoerce ==
    /\ RegIdle
    /\ MainIdle
    /\ coerce_arg \in ValueTexts
    /\ coerced = [done |-> FALSE, r |-> NoneValue]

Coerce ==
    /\ ~coerced.done
    /\ coerced' = [done |-> TRUE, r |-> _coerce_numeric(coerce_arg)]
    /\ UNCHANGED <<coerce_arg, regVars, parseVars, mainVars>>

NextCoerce == Coerce

SpecCoerce == InitCoerce /\ [][NextCoerce]_vars

Plain(text) == Remove(Remove(Strip(text), ","), "$")

Letters(text) == SelectSeq(text, LAMBDA ch : ch \notin Digits \cup {".", ",", "$", "(", ")", "-", "+", " ", "/"})

FloatWords == {<<"N", "A", "N">>, <<"I", "N", "F">>, <<"I", "N", "F", "I", "N", "I", "T", "Y">>}

NonNumeric(text) ==
    /\ \A i \in 1..Len(text) : text[i] \notin Digits
    /\ UpperText(Letters(text)) \notin FloatWords

Opposite(v) ==
    IF v.ty = "None" THEN v
    ELSE IF v.ty = "int" THEN IntValue(Negate(v.n))
    ELSE FloatValue(Negate(v.n))

Date(y, m, d) == [y |-> y, m |-> m, d |-> d]

DaysInMonth(y, m) ==
    CASE m = 2 -> IF (y % 4 = 0 /\ y % 100 # 0) \/ y % 400 = 0 THEN 29 ELSE 28
      [] m \in {4, 6, 9, 11} -> 30
      [] OTHER -> 31

RECURSIVE DaysBeforeMonth(_, _)
DaysBeforeMonth(y, m) ==
    IF m = 1 THEN 0 ELSE DaysBeforeMonth(y, m - 1) + DaysInMonth(y, m - 1)

toordinal(dt) ==
    LET p == dt.y - 1
    IN  p * 365 + (p \div 4) - (p \div 100) + (p \div 400)
          + DaysBeforeMonth(dt.y, dt.m) + dt.d

NoDate    == [ok |-> FALSE, date |-> Date(1, 1, 1)]
ADate(dt) == [ok |-> TRUE, date |-> dt]

\* ok = FALSE stands for ValueError
fromisoformat(text) ==
    IF /\ Len(text) = 10
       /\ text[5] = "-"
       /\ text[8] = "-"
       /\ AllDigits(SubSeq(text, 1, 4))
       /\ AllDigits(SubSeq(text, 6, 7))
       /\ AllDigits(SubSeq(text, 9, 10))
    THEN LET y == DigitsToNat(SubSeq(text, 1, 4), 0)
             m == DigitsToNat(SubSeq(text, 6, 7), 0)
             d == DigitsToNat(SubSeq(text, 9, 10), 0)
         IN  IF y >= 1 /\ m \in 1..12 /\ d >= 1 /\ d <= DaysInMonth(y, m)
             THEN ADate(Date(y, m, d))
             ELSE NoDate
    ELSE NoDate

_to_date(value) ==
    IF Len(value) = 0 THEN NoDate ELSE fromisoformat(Strip(value))

DigitChar(n) ==
    CASE n = 0 -> "0" [] n = 1 -> "1" [] n = 2 -> "2" [] n = 3 -> "3"
      [] n = 4 -> "4" [] n = 5 -> "5" [] n = 6 -> "6" [] n = 7 -> "7"
      [] n = 8 -> "8" [] n = 9 -> "9"

isoformat(dt) ==
    << DigitChar(dt.y \div 1000), DigitChar((dt.y \div 100) % 10),
       DigitChar((dt.y \div 10) % 10), DigitChar(dt.y % 10), "-",
       DigitChar(dt.m \div 10), DigitChar(dt.m % 10), "-",
       DigitChar(dt.d \div 10), DigitChar(dt.d % 10) >>

(***************************************************************************)
(* The document as lxml presents it: context nodes and the other elements  *)
(* in document order.  An absent child, an absent attribute and an empty   *)
(* text are all the empty text where the code does not tell them apart.    *)
(***************************************************************************)
Context(id, period, instant, startDate, endDate, raw) ==
    [id |-> id, period |-> period, instant |-> instant,
     startDate |-> startDate, endDate |-> endDate, raw |-> raw]

NoAttr  == [has |-> FALSE, v |-> <<>>]
Attr(t) == [has |-> TRUE, v |-> t]

\* text: the text fragments of the element, its own leading text first
Element(name, contextRef, text, value, decimals) ==
    [name |-> name, contextRef |-> contextRef, text |-> text,
     value |-> value, decimals |-> decimals]

Document(dialect, contexts, elements) ==
    [dialect |-> dialect, contexts |-> contexts, elements |-> elements]

(***************************************************************************)
(* _parse_contexts                                                         *)
(***************************************************************************)
NoData == [period_type |-> "none", date |-> <<>>, startDate |-> <<>>, endDate |-> <<>>]

context_data(c) ==
    IF Len(c.instant) > 0
    THEN [period_type |-> "instant", date |-> Strip(c.instant),
          startDate |-> <<>>, endDate |-> <<>>]
    ELSE LET end_text   == Strip(c.endDate)
             start_text == Strip(c.startDate)
         IN  IF Len(end_text) > 0
             THEN [period_type |-> "duration", date |-> <<>>,
                   startDate |-> start_text, endDate |-> end_text]
             ELSE IF Len(c.raw) > 0
             THEN [period_type |-> "unknown", date |-> Strip(c.raw),
                   startDate |-> <<>>, endDate |-> <<>>]
             ELSE NoData

\* contexts[context_id] = context_data
Put(contexts, id, data) ==
    IF \E i \in 1..Len(contexts) : contexts[i].id = id
    THEN LET i == CHOOSE i \in 1..Len(contexts) : contexts[i].id = id
         IN  [contexts EXCEPT ![i].data = data]
    ELSE Append(contexts, [id |-> id, data |-> data])

RECURSIVE ParseContextNodes(_, _)
ParseContextNodes(nodes, contexts) ==
    IF Len(nodes) = 0 THEN contexts
    ELSE LET c    == Head(nodes)
             data == context_data(c)
         IN  ParseContextNodes(Tail(nodes),
                 IF c.id = "" \/ ~c.period \/ data = NoData THEN contexts
                 ELSE Put(contexts, c.id, data))

_parse_contexts(tree) == ParseContextNodes(tree.contexts, <<>>)

\* contexts.get(context_ref)
Get(contexts, context_ref) ==
    IF \E i \in 1..Len(contexts) : contexts[i].id = context_ref
    THEN contexts[CHOOSE i \in 1..Len(contexts) : contexts[i].id = context_ref].data
    ELSE NoData

(***************************************************************************)
(* build_metric_xpath: which elements the XPath of a metric selects.       *)
(***************************************************************************)
RECURSIVE substring_after(_, _)
substring_after(name, sep) ==
    IF Len(name) = 0 THEN <<>>
    ELSE IF name[1] = sep THEN Tail(name)
    ELSE substring_after(Tail(name), sep)

\* local-name(): the part of a qualified name after its prefix
local_name(name) ==
    IF \E i \in 1..Len(name) : name[i] = ":" THEN substring_after(name, ":") ELSE name

Matches(dialect, name, alias) ==
    IF dialect = "inline"
    THEN name = alias \/ substring_after(name, ":") = alias
    ELSE local_name(name) = alias

(***************************************************************************)
(* The extraction loop of parse_filing (lines 202-261).                    *)
(***************************************************************************)
RECURSIVE Join(_)
Join(fragments) ==
    IF Len(fragments) = 0 THEN <<>> ELSE Head(fragments) \o Join(Tail(fragments))

value_text_of(dialect, element) ==
    LET own == IF dialect = "inline" THEN Strip(Join(element.text))
               ELSE IF Len(element.text) > 0 THEN Strip(element.text[1])
               ELSE <<>>
    IN  IF Len(own) > 0 THEN own ELSE Strip(element.value)

\* int(decimals): ok = FALSE stands for ValueError
ParseInt(text) ==
    LET t    == Strip(text)
        sign == Len(t) > 0 /\ t[1] \in {"-", "+"}
        body == IF sign THEN Tail(t) ELSE t
    IN  IF Len(body) > 0 /\ AllDigits(body)
        THEN [ok |-> TRUE,
              v |-> IF sign /\ t[1] = "-" THEN 0 - DigitsToNat(body, 0)
                    ELSE DigitsToNat(body, 0)]
        ELSE [ok |-> FALSE, v |-> 0]

\* the largest and the smallest power of ten a double holds
DoubleMaxExp10 == 308
DoubleMinExp10 == -323

RECURSIVE NumDigits(_)
NumDigits(m) == IF m < 10 THEN 1 ELSE 1 + NumDigits(m \div 10)

\* number * 10 ** e, to the power of ten
Times10(n, e) ==
    IF n.k = "nan" THEN NaN
    ELSE IF e < DoubleMinExp10
        THEN IF n.k = "inf" THEN NaN ELSE Normal(n.neg, 0, 0)
    ELSE IF n.k = "inf" THEN n
    ELSE IF n.m = 0 THEN n
    ELSE IF NumDigits(n.m) + n.x + e > DoubleMaxExp10 + 1 THEN Inf(n.neg)
    ELSE IF NumDigits(n.m) + n.x + e < DoubleMinExp10 THEN Normal(n.neg, 0, 0)
    ELSE Normal(n.neg, n.m, n.x + e)

INF == <<"I", "N", "F">>

\* a bug that scales the values of the plain dialect too
ScalesBothDialects(dialect, n, decimals) ==
    IF Len(decimals) = 0 \/ UpperText(decimals) = INF THEN [raised |-> FALSE, v |-> n]
    ELSE LET decimals_int == ParseInt(decimals)
         IN  IF ~decimals_int.ok THEN [raised |-> FALSE, v |-> n]
             ELSE IF 0 - decimals_int.v > DoubleMaxExp10
                 THEN [raised |-> TRUE, v |-> n]
             ELSE [raised |-> FALSE, v |-> Times10(n, 0 - decimals_int.v)]

\* lines 234-249; raised stands for the OverflowError of float * int
scaled_value(dialect, n, decimals) ==
    IF Len(decimals) = 0 \/ UpperText(decimals) = INF THEN [raised |-> FALSE, v |-> n]
    ELSE LET decimals_int == ParseInt(decimals)
         IN  IF ~decimals_int.ok THEN [raised |-> FALSE, v |-> n]
             ELSE IF dialect # "inline" THEN [raised |-> FALSE, v |-> n]
             ELSE IF 0 - decimals_int.v > DoubleMaxExp10
                 THEN [raised |-> TRUE, v |-> n]
             ELSE [raised |-> FALSE, v |-> Times10(n, 0 - decimals_int.v)]

RawFact(metric, value, decimals, period_info, context_ref) ==
    [metric |-> metric, value |-> value, decimals |-> decimals,
     period_type |-> period_info.period_type,
     period_primary_date |-> IF Len(period_info.date) > 0 THEN period_info.date
                             ELSE period_info.endDate,
     context_id |-> context_ref]

NoFact == RawFact("", NaN, <<>>, NoData, "")

\* one round of the inner loop: "skip" (continue), "fact" (append), "raise"
ElementOutcome(dialect, contexts, standard_metric, element) ==
    LET period_info   == Get(contexts, element.contextRef)
        value_text    == value_text_of(dialect, element)
        numeric_value == _coerce_numeric(value_text)
        decimals      == IF element.decimals.has THEN element.decimals.v ELSE INF
        scaled        == scaled_value(dialect, numeric_value.n, decimals)
    IN  IF element.contextRef = "" THEN [k |-> "skip", fact |-> NoFact]
        ELSE IF period_info = NoData THEN [k |-> "skip", fact |-> NoFact]
        ELSE IF Len(value_text) = 0 THEN [k |-> "skip", fact |-> NoFact]
        ELSE IF numeric_value.ty = "None" THEN [k |-> "skip", fact |-> NoFact]
        ELSE IF scaled.raised THEN [k |-> "raise", fact |-> NoFact]
        ELSE [k |-> "fact",
              fact |-> RawFact(standard_metric, scaled.v, decimals, period_info,
                               element.contextRef)]

OutcomesOf(dialect, contexts, entry, elements) ==
    LET matched == SelectSeq(elements,
                       LAMBDA e : \E a \in 1..Len(entry.tags) :
                                      Matches(dialect, e.name, entry.tags[a]))
    IN  [i \in 1..Len(matched) |->
            ElementOutcome(dialect, contexts, entry.metric, matched[i])]

RECURSIVE FactsIn(_)
FactsIn(outcomes) ==
    IF Len(outcomes) = 0 THEN <<>>
    ELSE IF outcomes[1].k = "fact" THEN <<outcomes[1].fact>> \o FactsIn(Tail(outcomes))
    ELSE FactsIn(Tail(outcomes))

\* an empty alias list makes the XPath expression invalid
AnyRaise(outcomes) == \E i \in 1..Len(outcomes) : outcomes[i].k = "raise"

EntryRaises(dialect, contexts, entry, elements) ==
    \/ Len(entry.tags) = 0
    \/ AnyRaise(OutcomesOf(dialect, contexts, entry, elements))

RECURSIVE extracted_facts_of(_, _, _)
extracted_facts_of(tree, contexts, aliases) ==
    IF Len(aliases) = 0 THEN <<>>
    ELSE FactsIn(OutcomesOf(tree.dialect, contexts, Head(aliases), tree.elements))
            \o extracted_facts_of(tree, contexts, Tail(aliases))

ExtractionRaises(tree, contexts, aliases) ==
    \E i \in 1..Len(aliases) :
        EntryRaises(tree.dialect, contexts, aliases[i], tree.elements)

(***************************************************************************)
(* The period selector of parse_filing (lines 263-292).  A score is kept   *)
(* doubled, so that the bonus of one half is the integer one.              *)
(***************************************************************************)
\* a bug that prefers instants for every metric
PrefersInstantAlways(metric_name) == FALSE

prefers_duration(metric_name) == metric_name \notin {"Assets", "Liabilities"}

ScoreInf      == [raised |-> FALSE, inf |-> TRUE, twice |-> 0]
ScoreOf(n)    == [raised |-> FALSE, inf |-> FALSE, twice |-> n]
ScoreRaises   == [raised |-> TRUE, inf |-> TRUE, twice |-> 0]

DaysApart(a, b) ==
    IF toordinal(a) < toordinal(b) THEN toordinal(b) - toordinal(a)
    ELSE toordinal(a) - toordinal(b)

\* a bug that ignores the distance
ScoreIgnoresDistance(fact, reportDate) ==
    LET fact_date   == _to_date(fact.period_primary_date)
        target_date == _to_date(reportDate)
    IN  IF Len(fact.period_primary_date) = 0 THEN ScoreInf
        ELSE IF ~fact_date.ok THEN ScoreInf
        ELSE IF ~target_date.ok THEN ScoreRaises
        ELSE IF fact.period_type = "instant" THEN ScoreOf(0)
        ELSE ScoreOf(0 - 1)

\* raised: _to_date(filing.reportDate) raises outside the try
calculate_period_score(fact, reportDate) ==
    LET fact_date   == _to_date(fact.period_primary_date)
        target_date == _to_date(reportDate)
    IN  IF Len(fact.period_primary_date) = 0 THEN ScoreInf
        ELSE IF ~fact_date.ok THEN ScoreInf
        ELSE IF ~target_date.ok THEN ScoreRaises
        ELSE IF fact.period_type = "instant"
            THEN ScoreOf(2 * DaysApart(fact_date.date, target_date.date))
        ELSE ScoreOf(2 * DaysApart(fact_date.date, target_date.date) - 1)

\* a bug that compares the numbers only
LessIgnoresInf(a, b) == a.twice < b.twice

Less(a, b) == ~a.inf /\ (b.inf \/ a.twice < b.twice)

RECURSIVE MetricsIn(_, _)
MetricsIn(facts, seen) ==
    IF Len(facts) = 0 THEN seen
    ELSE MetricsIn(Tail(facts),
             IF Contains(seen, facts[1].metric) THEN seen
             ELSE Append(seen, facts[1].metric))

\* a bug that never groups
FactsEachAlone(extracted) ==
    [i \in 1..Len(extracted) |->
        [metric |-> extracted[i].metric, facts |-> <<extracted[i]>>]]

\* facts_by_metric.setdefault(fact["metric"], []).append(fact)
facts_by_metric(extracted) ==
    LET metrics == MetricsIn(extracted, <<>>)
    IN  [i \in 1..Len(metrics) |->
            [metric |-> metrics[i],
             facts |-> SelectSeq(extracted, LAMBDA f : f.metric = metrics[i])]]

\* a bug that never filters by period type
CandidatesAll(metric, facts) == facts

CandidatesOf(metric, facts) ==
    LET preferred_type == IF prefers_duration(metric) THEN "duration" ELSE "instant"
        preferred == SelectSeq(facts, LAMBDA f : f.period_type = preferred_type)
    IN  IF Len(preferred) > 0 THEN preferred ELSE facts

Scores(candidates, reportDate) ==
    [i \in 1..Len(candidates) |-> calculate_period_score(candidates[i], reportDate)]

\* the index min() settles on: the first of the least
FirstLeast(scores) ==
    CHOOSE i \in 1..Len(scores) :
        /\ \A j \in 1..Len(scores) : ~Less(scores[j], scores[i])
        /\ \A j \in 1..(i - 1) : Less(scores[i], scores[j])

\* min(candidates, key=calculate_period_score)
Best(candidates, reportDate) == candidates[FirstLeast(Scores(candidates, reportDate))]

GroupRaises(group, reportDate) ==
    \E i \in 1..Len(CandidatesOf(group.metric, group.facts)) :
        calculate_period_score(CandidatesOf(group.metric, group.facts)[i],
                               reportDate).raised

RECURSIVE selected_facts_of(_, _, _)
selected_facts_of(groups, reportDate, selected) ==
    IF Len(groups) = 0 THEN selected
    ELSE LET best == Best(CandidatesOf(groups[1].metric, groups[1].facts), reportDate)
         IN  selected_facts_of(Tail(groups), reportDate,
                 IF Contains(selected, best) THEN selected ELSE Append(selected, best))

(***************************************************************************)
(* The final facts of parse_filing (lines 294-320).                        *)
(***************************************************************************)
Filing(cik, filingDate, reportDate, formType) ==
    [cik |-> cik, filingDate |-> filingDate, reportDate |-> reportDate,
     formType |-> formType]

period_date_str(fact, fl) ==
    IF Len(fact.period_primary_date) > 0 THEN fact.period_primary_date
    ELSE fl.reportDate

Fact(fact, fl) ==
    LET period_end_date == _to_date(period_date_str(fact, fl)).date
    IN  [company_cik |-> fl.cik,
         metric |-> fact.metric,
         value |-> fact.value,
         period_end_date |-> isoformat(period_end_date),
         fiscal_year |-> period_end_date.y,
         fiscal_quarter |-> ((period_end_date.m - 1) \div 3) + 1,
         form_type |-> fl.formType,
         filing_date |-> fl.filingDate]

FinalRaises(selected, fl) ==
    \/ ~_to_date(fl.reportDate).ok
    \/ \E i \in 1..Len(selected) : ~_to_date(period_date_str(selected[i], fl)).ok

final_facts_of(selected, fl) == [i \in 1..Len(selected) |-> Fact(selected[i], fl)]

(***************************************************************************)
(* parse_filing(filing), given the document its URL serves and the map     *)
(* _load_aliases() returns.  The result is the returned list ("returned")  *)
(* or an exception ("raised"), with the candidates and the selection the   *)
(* call got to.                                                            *)
(***************************************************************************)
Result(k, contexts, aliases, extracted, selected, facts) ==
    [k |-> k, contexts |-> contexts, aliases |-> aliases, extracted |-> extracted,
     selected |-> selected, facts |-> facts]

\* lines 294-320
AfterSelection(contexts, aliases, extracted, selected, fl) ==
    IF FinalRaises(selected, fl)
    THEN Result("raised", contexts, aliases, extracted, selected, <<>>)
    ELSE Result("returned", contexts, aliases, extracted, selected,
                final_facts_of(selected, fl))

\* lines 285-292
AfterGrouping(contexts, aliases, extracted, groups, fl) ==
    IF \E g \in 1..Len(groups) : GroupRaises(groups[g], fl.reportDate)
    THEN Result("raised", contexts, aliases, extracted, <<>>, <<>>)
    ELSE AfterSelection(contexts, aliases, extracted,
                        selected_facts_of(groups, fl.reportDate, <<>>), fl)

\* lines 281-283
AfterExtraction(contexts, aliases, extracted, fl) ==
    AfterGrouping(contexts, aliases, extracted, facts_by_metric(extracted), fl)

\* lines 200-261
AfterContexts(tree, contexts, aliases, fl) ==
    IF ExtractionRaises(tree, contexts, aliases)
    THEN Result("raised", contexts, aliases, <<>>, <<>>, <<>>)
    ELSE AfterExtraction(contexts, aliases,
                         extracted_facts_of(tree, contexts, aliases), fl)

parse_filing(tree, fl, aliases) ==
    AfterContexts(tree, _parse_contexts(tree), aliases, fl)

\* parse_filing as a step of the main process: the fetch, _load_aliases
\* (which fills the cache), the extraction
ParseOutcome ==
    IF doc.dialect = "none" \/ ~CanLoad(Main)
    THEN Result("raised", <<>>, <<>>, <<>>, <<>>, <<>>)
    ELSE parse_filing(doc, the_filing, Loaded(Main))

ParseCache ==
    IF doc.dialect = "none" \/ ~CanLoad(Main) THEN cache
    ELSE [cache EXCEPT ![Main] = Cached(Loaded(Main))]

(***************************************************************************)
(* Inputs of parse_filing: the texts, contexts and elements the documents  *)
(* of the model are made of.                                               *)
(***************************************************************************)
D_2024_12_31 == <<"2", "0", "2", "4", "-", "1", "2", "-", "3", "1">>

\* c_i: the instant 2024-12-31; c_d: 2024-01-01 to 2024-12-31; c_i1: the
\* instant 2025-01-01, padded with blanks; c_d1: a duration ending
\* 2024-12-30; c_dfar: 2023-01-01 to 2023-12-31; c_ifar: the instant
\* 2024-09-30; c_u: a period holding the raw text FY2024; c_blank: a blank
\* instant; c_none: an empty period; c_np: no period; the last has no id
Contexts ==
    << Context("c_i", TRUE, D_2024_12_31, <<>>, <<>>, <<>>),
       Context("c_d", TRUE, <<>>, <<"2", "0", "2", "4", "-", "0", "1", "-", "0", "1">>,
               D_2024_12_31, <<>>),
       Context("c_i1", TRUE,
               <<" ", "2", "0", "2", "5", "-", "0", "1", "-", "0", "1", " ">>,
               <<>>, <<>>, <<>>),
       Context("c_d1", TRUE, <<>>, <<>>,
               <<"2", "0", "2", "4", "-", "1", "2", "-", "3", "0">>, <<>>),
       Context("c_dfar", TRUE, <<>>,
               <<"2", "0", "2", "3", "-", "0", "1", "-", "0", "1">>,
               <<"2", "0", "2", "3", "-", "1", "2", "-", "3", "1">>, <<>>),
       Context("c_ifar", TRUE, <<"2", "0", "2", "4", "-", "0", "9", "-", "3", "0">>,
               <<>>, <<>>, <<>>),
       Context("c_u", TRUE, <<>>, <<>>, <<>>, <<"F", "Y", "2", "0", "2", "4">>),
       Context("c_blank", TRUE, <<" ">>, <<>>, <<>>, <<>>),
       Context("c_none", TRUE, <<>>, <<>>, <<>>, <<>>),
       Context("c_np", FALSE, <<>>, <<>>, <<>>, <<>>),
       Context("", TRUE, D_2024_12_31, <<>>, <<>>, <<>>) >>

Q(local) == <<"us-gaap", ":", local>>

bare_SalesRevenueNet == <<"SalesRevenueNet">>

E_Assets   == Element(Q("Assets"), "c_i", <<<<"1", "0", "0">>>>, <<>>, NoAttr)
E_Revenues == Element(Q("Revenues"), "c_d", <<<<"1", "0", "0">>>>, <<>>, NoAttr)
E_Sales    == Element(Q("SalesRevenueNet"), "c_d1", <<<<"5">>>>, <<>>, Attr(<<"-", "3">>))

ElementPool ==
    { E_Assets, E_Revenues, E_Sales,
      Element(Q("Revenues"), "c_i1", <<<<"(", "1", ",", "5", ")">>>>, <<>>, NoAttr),
      Element(Q("Assets"), "c_d1", <<<<"1", ".", "5">>>>, <<>>, NoAttr),
      Element(Q("Assets"), "c_i1", <<<<"5">>>>, <<>>, NoAttr),
      Element(Q("Assets"), "c_ifar", <<<<"5">>>>, <<>>, NoAttr),
      \* no text, a value attribute and an empty decimals attribute
      Element(Q("Assets"), "c_i", <<>>, <<"5">>, Attr(<<>>)),
      Element(Q("Revenues"), "c_dfar", <<<<"5">>>>, <<>>, Attr(Text_inf)),
      Element(Q("Revenues"), "c_d", <<Text_inf>>, <<>>, NoAttr),
      Element(Q("Revenues"), "c_u", <<<<"5">>>>, <<>>, NoAttr),
      Element(Q("Revenues"), "c_blank", <<<<"5">>>>, <<>>, NoAttr),
      Element(Q("Assets"), "c_blank", <<<<"5">>>>, <<>>, NoAttr),
      Element(Q("Revenues"), "c_none", <<<<"5">>>>, <<>>, NoAttr),
      Element(Q("Revenues"), "", <<<<"5">>>>, <<>>, NoAttr),
      Element(Q("Revenues"), "c_d", <<Text_NA>>, <<>>, NoAttr),
      \* text split over a child element, and decimals that is no integer
      Element(Q("Revenues"), "c_d", <<<<"1">>, <<"5">>>>, <<>>, Attr(<<"a", "b", "c">>)),
      \* an element without a prefix
      Element(bare_Revenues, "c_d", <<<<"1", ",", "5">>>>, <<>>, Attr(<<"2">>)) }

MaxElems == 2

Documents ==
    {Document(dialect, Contexts, elements) :
        dialect \in {"plain", "inline"},
        elements \in UNION {[1..n -> ElementPool] : n \in 0..MaxElems}}
      \cup {Unavailable}

C1Aliases ==
    << Entry("Assets", <<us_gaap_Assets>>), Entry("Revenues", <<us_gaap_Revenues>>) >>

BareAliases ==
    << Entry("Assets", <<bare_Assets>>),
       Entry("Revenues", <<bare_Revenues, bare_SalesRevenueNet>>) >>

ColonAliases ==
    << Entry("Revenues", <<colon_Revenues>>), Entry("Assets", <<Q("Assets")>>) >>

ParseAliasFiles ==
    {Stored(C1Aliases), Stored(BareAliases), Stored(ColonAliases), MissingFile}

\* EDGAR leaves the report date of some filings empty
Filings ==
    {Filing("0000320193", "2025-02-01", r, "10-K") : r \in {D_2024_12_31, <<>>}}

(***************************************************************************)
(* SpecParse: one parse_filing call on every document, alias file and      *)
(* filing of the bounds.                                                   *)
(***************************************************************************)
InitParse ==
    /\ file \in ParseAliasFiles
    /\ cache = [p \in Procs |-> NoCache]
    /\ wr = [p \in Procs |-> "idle"]
    /\ ret = [p \in Procs |-> NotCalled]
    /\ op = [p \in Procs |-> NoOp]
    /\ merged = {}
    /\ quiet = {}
    /\ calls = 0
    /\ CoerceIdle
    /\ doc \in Documents
    /\ taxonomy = Unreachable
    /\ the_filing \in Filings
    /\ result = NotParsed
    /\ pc = "off"
    /\ filings = <<>>
    /\ new_aliases = <<>>
    /\ extracted_facts = <<>>
    /\ inserted = <<>>
    /\ trail = <<>>

Parse ==
    /\ result.k = "idle"
    /\ result' = ParseOutcome
    /\ cache' = ParseCache
    /\ UNCHANGED <<file, wr, ret, op, merged, quiet, calls>>
    /\ UNCHANGED <<doc, taxonomy, the_filing, coerceVars, mainVars>>

NextParse == Parse

SpecParse == InitParse /\ [][NextParse]_vars

(***************************************************************************)
(* taxonomy_parser: alias discovery.  The taxonomy of a filing is the      *)
(* label map _build_label_map returns (tag -> label text) and the          *)
(* xlink:label attributes of the loc elements of the presentation file, in *)
(* document order.  A label is a text; a metric name is a string, with its *)
(* text given by NameText.                                                 *)
(***************************************************************************)
Lower(ch) ==
    CASE ch = "A" -> "a" [] ch = "B" -> "b" [] ch = "C" -> "c" [] ch = "D" -> "d" [] ch = "E" -> "e"
      [] ch = "F" -> "f" [] ch = "G" -> "g" [] ch = "H" -> "h" [] ch = "I" -> "i" [] ch = "J" -> "j"
      [] ch = "K" -> "k" [] ch = "L" -> "l" [] ch = "M" -> "m" [] ch = "N" -> "n" [] ch = "O" -> "o"
      [] ch = "P" -> "p" [] ch = "Q" -> "q" [] ch = "R" -> "r" [] ch = "S" -> "s" [] ch = "T" -> "t"
      [] ch = "U" -> "u" [] ch = "V" -> "v" [] ch = "W" -> "w" [] ch = "X" -> "x" [] ch = "Y" -> "y"
      [] ch = "Z" -> "z"
      [] OTHER -> ch

LowerText(s) == [i \in 1..Len(s) |-> Lower(s[i])]

\* the characters \w matches in the texts of the model
WordChars ==
    {"a", "b", "c", "d", "e", "f", "g", "h", "i", "j", "k", "l", "m",
     "n", "o", "p", "q", "r", "s", "t", "u", "v", "w", "x", "y", "z", "_"} \cup Digits

\* \b at position i of text: between text[i-1] and text[i]
Boundary(text, i) ==
    (i - 1 \in 1..Len(text) /\ text[i - 1] \in WordChars)
        # (i \in 1..Len(text) /\ text[i] \in WordChars)

\* re.search(rf"\b{re.escape(word)}\b", text)
SearchWord(word, text) ==
    \E i \in 1..(Len(text) - Len(word) + 1) :
        /\ SubSeq(text, i, i + Len(word) - 1) = word
        /\ Boundary(text, i)
        /\ Boundary(text, i + Len(word))

\* term in text
HasTerm(term, text) ==
    \E i \in 1..(Len(text) - Len(term) + 1) : SubSeq(text, i, i + Len(term) - 1) = term

EndsWith(text, suffix) ==
    /\ Len(text) >= Len(suffix)
    /\ SubSeq(text, Len(text) - Len(suffix) + 1, Len(text)) = suffix

PenaltyTerms ==
    { <<"s", "c", "h", "e", "d", "u", "l", "e">>,
      <<"t", "a", "b", "l", "e">>,
      <<"t", "e", "x", "t", " ", "b", "l", "o", "c", "k">>,
      <<"d", "e", "t", "a", "i", "l", "s">> }

\* a score is the tuple (s, len); none stands for None
NoScore == [none |-> TRUE, s |-> 0, len |-> 0]

\* a bug that forgets the penalty
ScoreWithoutPenalty(standard_lower, label_lower) ==
    LET n == Len(standard_lower)
    IN  IF label_lower = standard_lower
            THEN [none |-> FALSE, s |-> 0, len |-> Len(label_lower)]
        ELSE IF SearchWord(standard_lower, label_lower)
            THEN [none |-> FALSE, s |-> 1, len |-> Len(label_lower)]
        ELSE IF EndsWith(standard_lower, <<"s">>)
                /\ SearchWord(SubSeq(standard_lower, 1, n - 1), label_lower)
            THEN [none |-> FALSE, s |-> 2, len |-> Len(label_lower)]
        ELSE IF EndsWith(standard_lower, <<"e", "s">>)
                /\ SearchWord(SubSeq(standard_lower, 1, n - 2), label_lower)
            THEN [none |-> FALSE, s |-> 2, len |-> Len(label_lower)]
        ELSE NoScore

_score_label_match(standard_lower, label_lower) ==
    LET n == Len(standard_lower)
        penalty == IF \E term \in PenaltyTerms : HasTerm(term, label_lower) THEN 2 ELSE 0
    IN  IF label_lower = standard_lower
            THEN [none |-> FALSE, s |-> 0 + penalty, len |-> Len(label_lower)]
        ELSE IF SearchWord(standard_lower, label_lower)
            THEN [none |-> FALSE, s |-> 1 + penalty, len |-> Len(label_lower)]
        ELSE IF EndsWith(standard_lower, <<"s">>)
                /\ SearchWord(SubSeq(standard_lower, 1, n - 1), label_lower)
            THEN [none |-> FALSE, s |-> 2 + penalty, len |-> Len(label_lower)]
        ELSE IF EndsWith(standard_lower, <<"e", "s">>)
                /\ SearchWord(SubSeq(standard_lower, 1, n - 2), label_lower)
            THEN [none |-> FALSE, s |-> 2 + penalty, len |-> Len(label_lower)]
        ELSE NoScore

\* score < current_best, on tuples
ScoreLess(a, b) == a.s < b.s \/ (a.s = b.s /\ a.len < b.len)

NameText(standard_name) ==
    CASE standard_name = "Revenues" -> <<"R", "e", "v", "e", "n", "u", "e", "s">>
      [] standard_name = "Assets" -> <<"A", "s", "s", "e", "t", "s">>
      [] standard_name = "Liabilities" -> <<"L", "i", "a", "b", "i", "l", "i", "t", "i", "e", "s">>

\* lines 102-104: the tag without a trailing _loc, in any case
normalized_tag(tag_name) ==
    IF Len(tag_name) > 0 /\ tag_name[Len(tag_name)] \in {"_loc", "_LOC"}
    THEN SubSeq(tag_name, 1, Len(tag_name) - 1)
    ELSE tag_name

\* label_map.get(normalized_tag): the empty text stands for None
LabelOf(label_map, tag) ==
    IF \E i \in 1..Len(label_map) : label_map[i].tag = tag
    THEN label_map[CHOOSE i \in 1..Len(label_map) : label_map[i].tag = tag].label
    ELSE <<>>

\* lines 118-121: found holds new_aliases_found and alias_scores together,
\* in the insertion order of the dict
Scored(found, standard_name, tag, score) ==
    IF score.none THEN found
    ELSE IF \E i \in 1..Len(found) : found[i].metric = standard_name
    THEN LET i == CHOOSE i \in 1..Len(found) : found[i].metric = standard_name
         IN  IF ScoreLess(score, found[i].score)
             THEN [found EXCEPT ![i] = [metric |-> standard_name, tag |-> tag, score |-> score]]
             ELSE found
    ELSE Append(found, [metric |-> standard_name, tag |-> tag, score |-> score])

\* lines 112-121
RECURSIVE ScoreMetrics(_, _, _, _)
ScoreMetrics(found, tag, label_lower, metrics) ==
    IF Len(metrics) = 0 THEN found
    ELSE ScoreMetrics(
             Scored(found, Head(metrics), tag,
                    _score_label_match(LowerText(NameText(Head(metrics))), label_lower)),
             tag, label_lower, Tail(metrics))

\* lines 97-121
RECURSIVE ScanLocs(_, _, _, _)
ScanLocs(found, loc_elements, label_map, missing_metrics) ==
    IF Len(loc_elements) = 0 THEN found
    ELSE ScanLocs(
             IF Len(Head(loc_elements)) = 0
                 \/ Len(LabelOf(label_map, normalized_tag(Head(loc_elements)))) = 0
             THEN found
             ELSE ScoreMetrics(found, normalized_tag(Head(loc_elements)),
                      LowerText(LabelOf(label_map, normalized_tag(Head(loc_elements)))),
                      missing_metrics),
             Tail(loc_elements), label_map, missing_metrics)

_find_missing_aliases(loc_elements, label_map, missing_metrics) ==
    LET found == ScanLocs(<<>>, loc_elements, label_map, missing_metrics)
    IN  [i \in 1..Len(found) |-> Pair(found[i].metric, found[i].tag)]

Taxonomy(k, label_map, loc_elements) ==
    [k |-> k, label_map |-> label_map, locs |-> loc_elements]

\* what discover_aliases returns when it returns: {} when the index page
\* names no label or presentation file
discover_aliases(tx, missing_metrics) ==
    IF tx.k = "ok" THEN _find_missing_aliases(tx.locs, tx.label_map, missing_metrics)
    ELSE <<>>

(***************************************************************************)
(* Spec: the loop of main.py over the filings of a ticker (lines 128-179). *)
(* pc is the position of the main process in the loop body; trail is the   *)
(* calls made so far for the filing at hand.                               *)
(***************************************************************************)
MaxFilings == 2

D_C1    == Document("plain", Contexts, <<E_Assets, E_Revenues>>)

\* the label map of the model's taxonomies
LabelMap ==
    << [tag |-> us_gaap_Revenues, label |-> <<"R", "e", "v", "e", "n", "u", "e", "s">>],
       [tag |-> us_gaap_SalesRevenueNet,
        label |-> <<"T", "o", "t", "a", "l", " ", "R", "e", "v", "e", "n", "u", "e", "s">>],
       [tag |-> <<"us-gaap", "_", "RevenueRecognitionPolicyTextBlock">>,
        label |-> <<"R", "e", "v", "e", "n", "u", "e", " ", "R", "e", "c", "o", "g", "n", "i", "t", "i", "o", "n", " ", "P", "o", "l", "i", "c", "y", " ", "[", "T", "e", "x", "t", " ", "B", "l", "o", "c", "k", "]">>],
       [tag |-> <<"us-gaap", "_", "SalesRevenueGoodsNet">>,
        label |-> <<"S", "a", "l", "e", "s", " ", "R", "e", "v", "e", "n", "u", "e", "s">>],
       [tag |-> bare_SalesRevenueNet,
        label |-> <<"N", "e", "t", " ", "R", "e", "v", "e", "n", "u", "e">>],
       [tag |-> <<"us-gaap", "_", "ScheduleOfRevenues">>,
        label |-> <<"R", "e", "v", "e", "n", "u", "e", "s", " ", "T", "a", "b", "l", "e">>],
       [tag |-> <<"us-gaap", "_", "NonoperatingIncome">>,
        label |-> <<"N", "o", "n", "r", "e", "v", "e", "n", "u", "e", "s">>],
       [tag |-> us_gaap_Assets,
        label |-> <<"T", "o", "t", "a", "l", " ", "A", "s", "s", "e", "t", "s">>] >>

\* the xlink:label values of loc elements: with and without the _loc
\* suffix, one without a label in the map, one without the attribute
LocPool ==
    { us_gaap_Revenues \o <<"_loc">>,
      us_gaap_SalesRevenueNet,
      <<"us-gaap", "_", "RevenueRecognitionPolicyTextBlock">>,
      <<"us-gaap", "_", "SalesRevenueGoodsNet", "_LOC">>,
      bare_SalesRevenueNet,
      <<"us-gaap", "_", "ScheduleOfRevenues">>,
      <<"us-gaap", "_", "NonoperatingIncome">>,
      us_gaap_Assets \o <<"_loc">>,
      <<"us-gaap", "_", "Unlabelled">>,
      EmptyTag }

MaxLocs == 3

Taxonomies ==
    {Taxonomy("ok", LabelMap, loc_elements) :
        loc_elements \in UNION {[1..n -> LocPool] : n \in 0..MaxLocs}}

MainFilings ==
    { [doc |-> D_C1, taxonomy |-> Unreachable, filing |-> Filing("0000320193", "2025-02-01", D_2024_12_31, "10-K")],
      [doc |-> Document("inline", Contexts, <<E_Sales>>),
       taxonomy |-> Taxonomy("ok", LabelMap,
                        << <<"us-gaap", "_", "RevenueRecognitionPolicyTextBlock">>,
                           us_gaap_SalesRevenueNet >>),
       filing |-> Filing("0000320193", "2025-02-01", D_2024_12_31, "10-K")],
      [doc |-> Document("inline", Contexts, <<E_Sales>>),
       taxonomy |-> Taxonomy("ok", LabelMap, <<bare_SalesRevenueNet>>),
       filing |-> Filing("0000320193", "2025-02-01", D_2024_12_31, "10-K")],
      [doc |-> Document("inline", Contexts, <<E_Sales>>),
       taxonomy |-> Taxonomy("nourls", <<>>, <<>>),
       filing |-> Filing("0000320193", "2025-02-01", D_2024_12_31, "10-K")],
      [doc |-> D_C1, taxonomy |-> Taxonomy("ok", LabelMap, <<>>),
       filing |-> Filing("0000320193", "2025-02-01", <<>>, "10-Q")],
      [doc |-> Unavailable, taxonomy |-> Unreachable, filing |-> Filing("0000320193", "2025-02-01", D_2024_12_31, "10-K")] }

InitMain ==
    /\ file \in {Stored(C1Aliases), Stored(BareAliases)}
    /\ cache = [p \in Procs |-> NoCache]
    /\ wr = [p \in Procs |-> "idle"]
    /\ ret = [p \in Procs |-> NotCalled]
    /\ op = [p \in Procs |-> NoOp]
    /\ merged = {}
    /\ quiet = {}
    /\ calls = 0
    /\ CoerceIdle
    /\ doc = Unavailable
    /\ taxonomy = Unreachable
    /\ the_filing = NoFiling
    /\ result = NotParsed
    /\ pc = "loop"
    /\ filings \in UNION {[1..n -> MainFilings] : n \in 1..MaxFilings}
    /\ new_aliases = <<>>
    /\ extracted_facts = <<>>
    /\ inserted = <<>>
    /\ trail = <<>>

\* for filing in filings
NextFiling ==
    /\ pc = "loop"
    /\ Len(filings) > 0
    /\ doc' = Head(filings).doc
    /\ taxonomy' = Head(filings).taxonomy
    /\ the_filing' = Head(filings).filing
    /\ filings' = Tail(filings)
    /\ result' = NotParsed
    /\ trail' = <<>>
    /\ pc' = "parse"
    /\ UNCHANGED <<regVars, coerceVars, new_aliases, extracted_facts, inserted>>

\* a bug that goes on with a filing whose parse raised
FirstParseGoesOn ==
    /\ pc = "parse"
    /\ result' = ParseOutcome
    /\ cache' = ParseCache
    /\ trail' = Append(trail, "parse")
    /\ extracted_facts' = IF result'.k = "raised" THEN <<>> ELSE result'.facts
    /\ pc' = IF Len(extracted_facts') = 0 THEN "discover" ELSE "insert"
    /\ UNCHANGED <<file, wr, ret, op, merged, quiet, calls>>
    /\ UNCHANGED <<coerceVars, doc, taxonomy, the_filing, filings, new_aliases, inserted>>

\* lines 131-138: a parse that raises skips the filing
FirstParse ==
    /\ pc = "parse"
    /\ result' = ParseOutcome
    /\ cache' = ParseCache
    /\ trail' = Append(trail, "parse")
    /\ IF result'.k = "raised"
       THEN pc' = "loop" /\ UNCHANGED extracted_facts
       ELSE /\ extracted_facts' = result'.facts
            /\ pc' = IF Len(result'.facts) = 0 THEN "discover" ELSE "insert"
    /\ UNCHANGED <<file, wr, ret, op, merged, quiet, calls>>
    /\ UNCHANGED <<coerceVars, doc, taxonomy, the_filing, filings, new_aliases, inserted>>

\* lines 140-148: the cache is set, so _load_aliases() returns it; a
\* discover_aliases that raises leaves new_aliases = {}
Discover ==
    /\ pc = "discover"
    /\ new_aliases' = discover_aliases(taxonomy,
                           [i \in 1..Len(Loaded(Main)) |-> Loaded(Main)[i].metric])
    /\ pc' = IF Len(new_aliases') = 0 THEN "insert" ELSE "save"
    /\ trail' = Append(trail, "discover")
    /\ UNCHANGED <<regVars, coerceVars, doc, taxonomy, the_filing, result, filings,
                   extracted_facts, inserted>>

\* lines 153-154
SaveDiscovered ==
    /\ pc = "save"
    /\ Save(Main, new_aliases)
    /\ trail' = Append(trail, "save")
    /\ pc' = "reparse"
    /\ UNCHANGED <<calls, coerceVars, doc, taxonomy, the_filing, result, filings,
                   new_aliases, extracted_facts, inserted>>

\* a bug that parses again although the save raised
SaveFailsThenReparse ==
    /\ pc = "save"
    /\ SaveWriteRaises(Main, new_aliases)
    /\ trail' = Append(trail, "savefailed")
    /\ pc' = "reparse"
    /\ UNCHANGED <<calls, coerceVars, doc, taxonomy, the_filing, result, filings,
                   new_aliases, extracted_facts, inserted>>

\* lines 155-156
SaveDiscoveredFails ==
    /\ pc = "save"
    /\ SaveWriteRaises(Main, new_aliases)
    /\ trail' = Append(trail, "savefailed")
    /\ pc' = "insert"
    /\ UNCHANGED <<calls, coerceVars, doc, taxonomy, the_filing, result, filings,
                   new_aliases, extracted_facts, inserted>>

\* lines 157-162
Reparse ==
    /\ pc = "reparse"
    /\ result' = ParseOutcome
    /\ cache' = ParseCache
    /\ trail' = Append(trail, "reparse")
    /\ extracted_facts' = IF result'.k = "raised" THEN <<>> ELSE result'.facts
    /\ pc' = "insert"
    /\ UNCHANGED <<file, wr, ret, op, merged, quiet, calls>>
    /\ UNCHANGED <<coerceVars, doc, taxonomy, the_filing, filings, new_aliases, inserted>>

\* lines 166-172
InsertFacts ==
    /\ pc = "insert"
    /\ Len(extracted_facts) > 0
    /\ inserted' = Append(inserted, extracted_facts)
    /\ trail' = Append(trail, "insert")
    /\ pc' = "loop"
    /\ UNCHANGED <<regVars, coerceVars, doc, taxonomy, the_filing, result, filings,
                   new_aliases, extracted_facts>>

\* lines 173-174: the database raises
InsertFails ==
    /\ pc = "insert"
    /\ Len(extracted_facts) > 0
    /\ trail' = Append(trail, "insertfailed")
    /\ pc' = "loop"
    /\ UNCHANGED <<regVars, coerceVars, doc, taxonomy, the_filing, result, filings,
                   new_aliases, extracted_facts, inserted>>

\* lines 175-179
NoFacts ==
    /\ pc = "insert"
    /\ Len(extracted_facts) = 0
    /\ trail' = Append(trail, "nofacts")
    /\ pc' = "loop"
    /\ UNCHANGED <<regVars, coerceVars, doc, taxonomy, the_filing, result, filings,
                   new_aliases, extracted_facts, inserted>>

Next ==
    \/ NextFiling
    \/ FirstParse
    \/ Discover
    \/ SaveDiscovered
    \/ SaveDiscoveredFails
    \/ Reparse
    \/ InsertFacts
    \/ InsertFails
    \/ NoFacts

Spec == InitMain /\ [][Next]_vars

(***************************************************************************)
(* SpecDiscover: one filing whose document holds no fact element, so that  *)
(* the first parse returns no facts, with every taxonomy of the bounds.    *)
(***************************************************************************)
InitDiscover ==
    /\ file = Stored(C1Aliases)
    /\ cache = [p \in Procs |-> NoCache]
    /\ wr = [p \in Procs |-> "idle"]
    /\ ret = [p \in Procs |-> NotCalled]
    /\ op = [p \in Procs |-> NoOp]
    /\ merged = {}
    /\ quiet = {}
    /\ calls = 0
    /\ CoerceIdle
    /\ doc = Unavailable
    /\ taxonomy = Unreachable
    /\ the_filing = NoFiling
    /\ result = NotParsed
    /\ pc = "loop"
    /\ \E tx \in Taxonomies :
          filings = << [doc |-> Document("plain", Contexts, <<>>), taxonomy |-> tx,
                        filing |-> Filing("0000320193", "2025-02-01", D_2024_12_31, "10-K")] >>
    /\ new_aliases = <<>>
    /\ extracted_facts = <<>>
    /\ inserted = <<>>
    /\ trail = <<>>

NextDiscover ==
    \/ NextFiling
    \/ FirstParse
    \/ Discover

SpecDiscover == InitDiscover /\ [][NextDiscover]_vars

(***************************************************************************)
(* Claims about parse_filing and the main loop.                            *)
(***************************************************************************)
Parseable(fact) == _to_date(fact.period_primary_date).ok

Distance(fact) ==
    DaysApart(_to_date(fact.period_primary_date).date, _to_date(the_filing.reportDate).date)

IsC1Input ==
    /\ doc.dialect \in {"plain", "inline"}
    /\ doc.contexts = Contexts
    /\ doc.elements = <<E_Assets, E_Revenues>>
    /\ file = Stored(C1Aliases)
    /\ the_filing.reportDate = D_2024_12_31

\* C1: parse_filing on the document with one us-gaap:Assets element at the
\* instant 2024-12-31 and one us-gaap:Revenues element over 2024-01-01 to
\* 2024-12-31, the alias map {Assets: [us-gaap_Assets], Revenues:
\* [us-gaap_Revenues]} and the report date 2024-12-31, returns exactly two
\* Facts, Assets and Revenues, both with period end 2024-12-31 and fiscal
\* quarter 4, in the plain and in the inline dialect.
C1_EndToEnd ==
    (IsC1Input /\ result.k # "idle") =>
        /\ result.k = "returned"
        /\ Len(result.facts) = 2
        /\ \A metric \in {"Assets", "Revenues"} :
              \E i \in 1..Len(result.facts) :
                  /\ result.facts[i].metric = metric
                  /\ result.facts[i].period_end_date = D_2024_12_31
                  /\ result.facts[i].fiscal_quarter = 4

\* C3: the list parse_filing returns holds at most one Fact per metric.
C3_OneFactPerMetric ==
    result.k = "returned" =>
        \A i, j \in 1..Len(result.facts) :
            result.facts[i].metric = result.facts[j].metric => i = j

\* two elements under different aliases and contexts gave one Fact
C3_Witness ==
    /\ result.k = "returned"
    /\ Len(result.facts) = 1
    /\ \E i, j \in 1..Len(result.extracted) :
          /\ result.extracted[i].metric = result.extracted[j].metric
          /\ result.extracted[i].context_id # result.extracted[j].context_id
          /\ result.extracted[i].value # result.extracted[j].value

WellFormedDate(f) ==
    LET t == f.period_end_date
    IN  /\ Len(t) = 10
        /\ t[5] = "-" /\ t[8] = "-"
        /\ AllDigits(SubSeq(t, 1, 4)) /\ AllDigits(SubSeq(t, 6, 7))
        /\ AllDigits(SubSeq(t, 9, 10))
        /\ DigitsToNat(SubSeq(t, 1, 4), 0) = f.fiscal_year
        /\ f.fiscal_quarter \in 1..4
        /\ f.fiscal_quarter = ((DigitsToNat(SubSeq(t, 6, 7), 0) - 1) \div 3) + 1

\* C4: every Fact parse_filing returns has a period_end_date of the form
\* YYYY-MM-DD whose year is fiscal_year, a fiscal_quarter in 1..4 that is
\* ((month - 1) div 3) + 1 of that date, and a finite value.
C4_FactsWellFormed ==
    result.k = "returned" =>
        \A i \in 1..Len(result.facts) :
            WellFormedDate(result.facts[i]) /\ IsFinite(result.facts[i].value)

\* C8: of two candidates of one metric with the same period type and
\* parseable primary dates, the one strictly farther from the report date
\* is not the one selected.
C8_FartherNeverSelected ==
    \A i, j \in 1..Len(result.extracted) :
        LET near == result.extracted[i]
            far  == result.extracted[j]
        IN  (/\ near.metric = far.metric
             /\ near.period_type = far.period_type
             /\ Parseable(near) /\ Parseable(far)
             /\ _to_date(the_filing.reportDate).ok
             /\ Distance(far) > Distance(near))
            => ~Contains(result.selected, far)

\* the farther candidate came first and the nearer one was selected
C8_Witness ==
    /\ result.k = "returned"
    /\ Len(result.extracted) = 2
    /\ result.extracted[1].metric = result.extracted[2].metric
    /\ result.extracted[1].period_type = result.extracted[2].period_type
    /\ Parseable(result.extracted[1]) /\ Parseable(result.extracted[2])
    /\ Distance(result.extracted[1]) > Distance(result.extracted[2])
    /\ result.selected = <<result.extracted[2]>>

EqualDistance(duration, instant) ==
    /\ duration.metric = instant.metric
    /\ duration.period_type = "duration"
    /\ instant.period_type = "instant"
    /\ Parseable(duration) /\ Parseable(instant)
    /\ _to_date(the_filing.reportDate).ok
    /\ Distance(duration) = Distance(instant)

\* C9, as claimed: for any metric, of a duration candidate and an instant
\* candidate at the same distance from the report date, the duration one is
\* selected over the instant one.
C9_DurationBeatsInstant ==
    \A i, j \in 1..Len(result.extracted) :
        EqualDistance(result.extracted[i], result.extracted[j])
            => ~Contains(result.selected, result.extracted[j])

\* C9, amended: for any metric other than Assets and Liabilities, of a
\* duration candidate and an instant candidate at the same distance the
\* instant one is not selected; for Assets and Liabilities the duration one
\* is not selected.
C9_PreferredTypeWins ==
    \A i, j \in 1..Len(result.extracted) :
        EqualDistance(result.extracted[i], result.extracted[j])
            => IF result.extracted[i].metric \in {"Assets", "Liabilities"}
               THEN ~Contains(result.selected, result.extracted[i])
               ELSE ~Contains(result.selected, result.extracted[j])

\* Revenues: the instant candidate came first, the duration one was selected
C9_Witness ==
    /\ result.k = "returned"
    /\ Len(result.extracted) = 2
    /\ EqualDistance(result.extracted[2], result.extracted[1])
    /\ result.extracted[1].metric = "Revenues"
    /\ result.selected = <<result.extracted[2]>>

HasSalesRevenueNet(tree) ==
    \E i \in 1..Len(tree.elements) :
        /\ tree.elements[i].name = Q("SalesRevenueNet")
        /\ _to_date(RawFact("", NaN, <<>>, Get(_parse_contexts(tree), tree.elements[i].contextRef),
                            "").period_primary_date).ok
        /\ _coerce_numeric(value_text_of(tree.dialect, tree.elements[i])).ty # "None"

\* C2: when the first parse of a document holding a us-gaap:SalesRevenueNet
\* element with a valid context returned no Facts and discover_aliases
\* returned {Revenues: us-gaap_SalesRevenueNet}, then after save_new_aliases
\* the second parse_filing call returns a Revenues Fact.
C2_RetryYieldsRevenues ==
    (/\ pc = "insert"
     /\ trail = <<"parse", "discover", "save", "reparse">>
     /\ new_aliases = <<Pair("Revenues", us_gaap_SalesRevenueNet)>>
     /\ HasSalesRevenueNet(doc))
    => \E i \in 1..Len(extracted_facts) : extracted_facts[i].metric = "Revenues"

\* the value the scaling rule gives element e: scaled by the decimals hint
\* in the inline dialect when the hint is an integer, as read otherwise
RuleValue(e) ==
    LET v == _coerce_numeric(value_text_of(doc.dialect, e)).n
        d == IF e.decimals.has THEN e.decimals.v ELSE <<>>
    IN  IF doc.dialect = "inline" /\ ParseInt(d).ok THEN Times10(v, 0 - ParseInt(d).v)
        ELSE v

FromElement(fact, e) ==
    /\ e.contextRef = fact.context_id
    /\ fact.decimals = (IF e.decimals.has THEN e.decimals.v ELSE INF)
    /\ \E a \in 1..Len(TagsOf(result.aliases, fact.metric)) :
          Matches(doc.dialect, e.name, TagsOf(result.aliases, fact.metric)[a])

\* C11: the value of a RawFact is v * 10^(-d) when the document is inline
\* and the decimals hint d of its element is an integer string, and exactly
\* the normalised value v of the element otherwise: d absent, empty, INF in
\* any case or no integer (the fact is kept), or the plain dialect.
C11_ScalingRule ==
    /\ \A i \in 1..Len(result.extracted) :
          \E j \in 1..Len(doc.elements) :
              /\ FromElement(result.extracted[i], doc.elements[j])
              /\ result.extracted[i].value = RuleValue(doc.elements[j])
    /\ result.k = "returned" =>
          \A j \in 1..Len(doc.elements) : \A a \in 1..Len(result.aliases) :
              LET outcome == ElementOutcome(doc.dialect, _parse_contexts(doc),
                                            result.aliases[a].metric, doc.elements[j])
              IN  (outcome.k = "fact"
                   /\ \E t \in 1..Len(result.aliases[a].tags) :
                         Matches(doc.dialect, doc.elements[j].name, result.aliases[a].tags[t]))
                  => /\ outcome.fact.value = RuleValue(doc.elements[j])
                     /\ Contains(result.extracted, outcome.fact)

\* an inline value 5 with decimals -3 became 5000, and a hint that is no
\* integer left the value 15 of another element as read
C11_Witness ==
    /\ result.k = "returned"
    /\ doc.dialect = "inline"
    /\ \E i \in 1..Len(result.extracted) :
          /\ result.extracted[i].decimals = <<"-", "3">>
          /\ result.extracted[i].value = Normal(FALSE, 5, 3)
    /\ \E i \in 1..Len(result.extracted) :
          /\ result.extracted[i].decimals = <<"a", "b", "c">>
          /\ result.extracted[i].value = Normal(FALSE, 15, 0)

CallsOf(names) == SelectSeq(trail, LAMBDA c : c \in names)

\* C12: for each filing of the loop, discover_aliases is called only when
\* the first parse_filing call returned an empty list; parse_filing is
\* called a second time only after discover_aliases returned a non-empty
\* dict and save_new_aliases returned; there is at most one discover_aliases
\* call and there are at most two parse_filing calls.
C12_Orchestration ==
    /\ \A i \in 1..Len(trail) : trail[i] = "parse" => i = 1
    /\ \A i \in 1..Len(trail) : trail[i] = "discover" => (i = 2 /\ trail[1] = "parse")
    /\ trail = <<"parse", "discover">> => (result.k = "returned" /\ Len(result.facts) = 0)
    /\ \A i \in 1..Len(trail) :
          trail[i] = "reparse" =>
              /\ SubSeq(trail, 1, i - 1) = <<"parse", "discover", "save">>
              /\ Len(new_aliases) > 0
    /\ trail = <<"parse", "discover", "save">> => (op[Main].k = "save" /\ file.k = "map")
    /\ Len(CallsOf({"discover"})) <= 1
    /\ Len(CallsOf({"parse", "reparse"})) <= 2

\* the second parse of a filing has been made, after a save that returned
C12_Witness ==
    /\ trail = <<"parse", "discover", "save", "reparse">>
    /\ Len(new_aliases) > 0
    /\ result.k = "returned"

\* C13: reading the alias registry when no persisted alias file exists
\* gives a usable (possibly empty) map; neither _load_aliases nor
\* save_new_aliases raises because the file is absent.
C13_LoadOrCreate ==
    \A p \in Procs :
        file = MissingFile =>
            /\ op[p].k \notin {"loadraised", "saveraised"}
            /\ ret[p] # Raised

Key(s, len) == [none |-> FALSE, s |-> s, len |-> len]

\* for each locator of LocPool: the alias it stands for and the key of its
\* label for Revenues and for Assets, as the scoring rule gives them
Expected ==
    { [loc |-> us_gaap_Revenues \o <<"_loc">>, alias |-> us_gaap_Revenues,
       Revenues |-> Key(0, 8), Assets |-> NoScore],
      [loc |-> us_gaap_SalesRevenueNet, alias |-> us_gaap_SalesRevenueNet,
       Revenues |-> Key(1, 14), Assets |-> NoScore],
      [loc |-> <<"us-gaap", "_", "RevenueRecognitionPolicyTextBlock">>,
       alias |-> <<"us-gaap", "_", "RevenueRecognitionPolicyTextBlock">>,
       Revenues |-> Key(2 + 2, 39), Assets |-> NoScore],
      [loc |-> <<"us-gaap", "_", "SalesRevenueGoodsNet", "_LOC">>,
       alias |-> <<"us-gaap", "_", "SalesRevenueGoodsNet">>,
       Revenues |-> Key(1, 14), Assets |-> NoScore],
      [loc |-> bare_SalesRevenueNet, alias |-> bare_SalesRevenueNet,
       Revenues |-> Key(2, 11), Assets |-> NoScore],
      [loc |-> <<"us-gaap", "_", "ScheduleOfRevenues">>,
       alias |-> <<"us-gaap", "_", "ScheduleOfRevenues">>,
       Revenues |-> Key(1 + 2, 14), Assets |-> NoScore],
      [loc |-> <<"us-gaap", "_", "NonoperatingIncome">>,
       alias |-> <<"us-gaap", "_", "NonoperatingIncome">>,
       Revenues |-> NoScore, Assets |-> NoScore],
      [loc |-> us_gaap_Assets \o <<"_loc">>, alias |-> us_gaap_Assets,
       Revenues |-> NoScore, Assets |-> Key(1, 12)],
      [loc |-> <<"us-gaap", "_", "Unlabelled">>,
       alias |-> <<"us-gaap", "_", "Unlabelled">>,
       Revenues |-> NoScore, Assets |-> NoScore],
      [loc |-> EmptyTag, alias |-> EmptyTag, Revenues |-> NoScore, Assets |-> NoScore] }

ExpectedOf(tag_name) == CHOOSE row \in Expected : row.loc = tag_name

KeyFor(metric, tag_name) ==
    IF metric = "Revenues" THEN ExpectedOf(tag_name).Revenues
    ELSE ExpectedOf(tag_name).Assets

\* the locators with a key for the metric
Ranked(metric) ==
    {i \in 1..Len(taxonomy.locs) : ~KeyFor(metric, taxonomy.locs[i]).none}

\* locator i has the least key, and is the first to have it
FirstBest(metric, i) ==
    \A j \in Ranked(metric) :
        LET ki == KeyFor(metric, taxonomy.locs[i])
            kj == KeyFor(metric, taxonomy.locs[j])
        IN  \/ ki.s < kj.s
            \/ ki.s = kj.s /\ ki.len < kj.len
            \/ ki.s = kj.s /\ ki.len = kj.len /\ i <= j

\* C14: for each requested metric discover_aliases returns the tag of the
\* locator whose label has the least key (base + penalty, label length),
\* the first such locator on a tie; base is 0 for the metric name itself in
\* any case, 1 for the name as a word of the label, 2 for its singular as a
\* word; the penalty is 2 for a label with schedule, table, text block or
\* details; locators without a label are skipped and a metric no label
\* matches is absent.  Total Revenues ranks before Revenue Recognition
\* Policy [Text Block] for Revenues.
C14_DiscoveryResult ==
    /\ trail = <<"parse", "discover">> =>
          \A metric \in {"Assets", "Revenues"} :
              IF Ranked(metric) = {}
              THEN \A n \in 1..Len(new_aliases) : new_aliases[n].metric # metric
              ELSE \E i \in Ranked(metric) :
                      /\ FirstBest(metric, i)
                      /\ \E n \in 1..Len(new_aliases) :
                            new_aliases[n] = Pair(metric, ExpectedOf(taxonomy.locs[i]).alias)
                      /\ \A n, o \in 1..Len(new_aliases) :
                            new_aliases[n].metric = new_aliases[o].metric => n = o
    /\ \A i \in 1..Len(taxonomy.locs) : \A metric \in {"Assets", "Revenues"} :
          LET tag == normalized_tag(taxonomy.locs[i])
          IN  (Len(taxonomy.locs[i]) > 0 /\ Len(LabelOf(taxonomy.label_map, tag)) > 0)
              => _score_label_match(LowerText(NameText(metric)),
                                    LowerText(LabelOf(taxonomy.label_map, tag)))
                    = KeyFor(metric, taxonomy.locs[i])
    /\ taxonomy.k = "ok" =>
          ScoreLess(_score_label_match(LowerText(NameText("Revenues")),
                        LowerText(LabelOf(taxonomy.label_map, us_gaap_SalesRevenueNet))),
                    _score_label_match(LowerText(NameText("Revenues")),
                        LowerText(LabelOf(taxonomy.label_map,
                            <<"us-gaap", "_", "RevenueRecognitionPolicyTextBlock">>))))

\* of two locators with the key (1, 14) the first was taken, although a
\* locator with a worse key came between them
C14_Witness ==
    /\ trail = <<"parse", "discover">>
    /\ taxonomy.locs = << <<"us-gaap", "_", "SalesRevenueGoodsNet", "_LOC">>,
                          <<"us-gaap", "_", "RevenueRecognitionPolicyTextBlock">>,
                          us_gaap_SalesRevenueNet >>
    /\ new_aliases = <<Pair("Revenues", <<"us-gaap", "_", "SalesRevenueGoodsNet">>)>>

Unparsable(fact) == Len(fact.period_primary_date) > 0 /\ ~Parseable(fact)

\* C15: when the candidate selected for a metric has a non-empty primary
\* date that is no valid ISO date, parse_filing still returns.
C15_UnparsableDateAbsorbed ==
    \A i \in 1..Len(result.selected) :
        Unparsable(result.selected[i]) => result.k = "returned"

\* the candidates of a metric, in the order they were collected
Of(metric) == SelectSeq(result.extracted, LAMBDA f : f.metric = metric)

\* the candidates the selection for a metric is made among: those of the
\* preferred period type if there is one, all of them otherwise
Among(metric) ==
    LET preferred == IF metric \in {"Assets", "Liabilities"} THEN "instant" ELSE "duration"
    IN  IF \E i \in 1..Len(Of(metric)) : Of(metric)[i].period_type = preferred
        THEN SelectSeq(Of(metric), LAMBDA f : f.period_type = preferred)
        ELSE Of(metric)

\* C16, as claimed: a candidate whose primary date is missing or unparsable
\* is selected only if its metric has no other candidate; when the metric
\* has a candidate of any period type with a parseable date, the selected
\* candidate has a parseable date.
C16_UndatedOnlyWhenAlone ==
    \A i \in 1..Len(result.selected) :
        LET sel == result.selected[i]
        IN  ~Parseable(sel) =>
                /\ Len(Of(sel.metric)) = 1
                /\ \A j \in 1..Len(Of(sel.metric)) : ~Parseable(Of(sel.metric)[j])

\* C16, amended: a candidate whose primary date is missing or unparsable is
\* selected only if every candidate the selection is made among (those of
\* the preferred period type if any, else all of the metric) has a missing
\* or unparsable date.
C16_UndatedOnlyAmongUndated ==
    \A i \in 1..Len(result.selected) :
        LET sel == result.selected[i]
        IN  ~Parseable(sel) =>
                \A j \in 1..Len(Among(sel.metric)) : ~Parseable(Among(sel.metric)[j])

\* a candidate without a date came first and the dated one was selected
C16_Witness ==
    /\ result.k = "returned"
    /\ Len(result.extracted) = 2
    /\ Among(result.extracted[1].metric) = result.extracted
    /\ ~Parseable(result.extracted[1])
    /\ Parseable(result.extracted[2])
    /\ result.selected = <<result.extracted[2]>>

\* C17: the candidate selected for Assets or Liabilities is an instant one
\* when the metric has an instant candidate, for any other metric a
\* duration one when it has a duration candidate; it is taken among all
\* candidates of the metric only when none has the preferred type; it has
\* the least score of those it is taken among and is the first to have it.
C17_PreferenceAndFallback ==
    \A i \in 1..Len(result.selected) :
        LET sel == result.selected[i]
            among == Among(sel.metric)
        IN  \E n \in 1..Len(among) :
                /\ among[n] = sel
                /\ \A j \in 1..Len(among) :
                      ~Less(calculate_period_score(among[j], the_filing.reportDate),
                            calculate_period_score(sel, the_filing.reportDate))
                /\ \A j \in 1..(n - 1) :
                      Less(calculate_period_score(sel, the_filing.reportDate),
                           calculate_period_score(among[j], the_filing.reportDate))
                /\ (sel.metric \in {"Assets", "Liabilities"}
                    /\ \E j \in 1..Len(Of(sel.metric)) : Of(sel.metric)[j].period_type = "instant")
                      => sel.period_type = "instant"
                /\ (sel.metric \notin {"Assets", "Liabilities"}
                    /\ \E j \in 1..Len(Of(sel.metric)) : Of(sel.metric)[j].period_type = "duration")
                      => sel.period_type = "duration"

\* Assets: the instant candidate was selected although the duration one,
\* collected first, is nearer to the report date
C17_Witness ==
    /\ result.k = "returned"
    /\ Len(result.extracted) = 2
    /\ result.extracted[1].metric = "Assets"
    /\ result.extracted[2].metric = "Assets"
    /\ result.extracted[1].period_type = "duration"
    /\ result.extracted[2].period_type = "instant"
    /\ Parseable(result.extracted[1]) /\ Parseable(result.extracted[2])
    /\ Distance(result.extracted[1]) < Distance(result.extracted[2])
    /\ result.selected = <<result.extracted[2]>>

Recorded(id) == SelectSeq(result.contexts, LAMBDA entry : entry.id = id)

\* C18: every context record with an identifier and a period sub-element
\* is in the index with exactly one descriptor: instant with the date when
\* the period has an instant date, else duration with the end date (and the
\* start date when there is one) when it has an end date, else unknown; a
\* period with neither date is recorded as unknown, not dropped.
C18_ContextIndexComplete ==
    result.k = "returned" =>
        \A i \in 1..Len(doc.contexts) :
            LET c == doc.contexts[i]
            IN  (c.id # "" /\ c.period) =>
                    /\ Len(Recorded(c.id)) = 1
                    /\ Recorded(c.id)[1].data.period_type =
                          (IF Len(c.instant) > 0 THEN "instant"
                           ELSE IF Len(Strip(c.endDate)) > 0 THEN "duration"
                           ELSE "unknown")
                    /\ Len(c.instant) > 0 => Recorded(c.id)[1].data.date = Strip(c.instant)
                    /\ (Len(c.instant) = 0 /\ Len(Strip(c.endDate)) > 0) =>
                          /\ Recorded(c.id)[1].data.endDate = Strip(c.endDate)
                          /\ Recorded(c.id)[1].data.startDate = Strip(c.startDate)

\* the same name once a namespace prefix is ignored on either side
SameConcept(name, alias) ==
    Len(name) > 0 /\ Len(alias) > 0 /\ name[Len(name)] = alias[Len(alias)]

\* C19: in both dialects an element with a context reference is matched
\* for a metric exactly when its tag name equals one of the metric's
\* aliases once an optional namespace prefix is ignored on either side,
\* whether the alias is stored bare, as prefix:name or as prefix_name.
C19_PrefixTolerantMatching ==
    result.k = "returned" =>
        \A j \in 1..Len(doc.elements) : \A a \in 1..Len(result.aliases) :
            LET outcome == ElementOutcome(doc.dialect, result.contexts,
                                          result.aliases[a].metric, doc.elements[j])
            IN  outcome.k = "fact" =>
                    ((\E t \in 1..Len(result.aliases[a].tags) :
                          SameConcept(doc.elements[j].name, result.aliases[a].tags[t]))
                     <=> Contains(result.extracted, outcome.fact))

\* C20, the serialized half: when every merge that returned read the file
\* at its start (its cache was empty) and wrote it before any other write,
\* the persisted map holds every merged tag.
C20_SerializedMergesKept ==
    ((\A e \in merged : e.serial) /\ file.k = "map") =>
        \A e \in merged : Contains(TagsOf(file.v, e.metric), e.tag)

\* C20, the lost update: two writers merged different tags, both calls
\* returned, and the persisted map holds one tag and lacks the other
C20_Witness ==
    \E e1, e2 \in merged :
        /\ e1.by # e2.by
        /\ e1.tag # e2.tag
        /\ wr = [p \in Procs |-> "idle"]
        /\ file.k = "map"
        /\ ~Contains(TagsOf(file.v, e1.metric), e1.tag)
        /\ Contains(TagsOf(file.v, e2.metric), e2.tag)

Within(small, large) ==
    \A m \in Keys(small) : TagSet(small, m) \subseteq TagSet(large, m)

\* C21: after a save_new_aliases whose write raised, the map later
\* _load_aliases calls of the process observe is the persisted one: between
\* operations the cache holds no tag the persisted map does not hold, and a
\* load returns no such tag.
C21_FailedMergeLeavesState ==
    \A p \in Procs :
        file.k = "map" =>
            /\ cache[p].k = "map" => Within(cache[p].v, file.v)
            /\ op[p].k = "load" => Within(ret[p].v, file.v)

\* C22: when the first parse_filing call for a filing raises, the loop
\* goes to the next filing: discover_aliases is not called for it, no list
\* is handed to insert_financial_facts and the alias file is as before;
\* every list handed to insert_financial_facts holds a Fact.
C22_RaisingFilingSkipped ==
    /\ [][(pc = "parse" /\ result'.k = "raised") =>
             /\ pc' = "loop"
             /\ trail' = <<"parse">>
             /\ inserted' = inserted
             /\ file' = file
             /\ filings' = filings]_vars
    /\ []((result.k = "raised" /\ \A i \in 1..Len(trail) : trail[i] # "reparse")
              => (trail = <<"parse">> /\ pc = "loop"))
    /\ [](\A i \in 1..Len(inserted) : Len(inserted[i]) > 0)

\* the first parse of a filing raised, nothing was stored for it and
\* another filing is left to process
C22_Witness ==
    /\ result.k = "raised"
    /\ trail = <<"parse">>
    /\ pc = "loop"
    /\ inserted = <<>>
    /\ Len(filings) = 1

====
